---------------------------- MODULE Spec2Model ----------------------------
(***************************************************************************)
(* zenmail: the interactive application engine of src/app.rs.              *)
(*                                                                         *)
(* The controller loop of run() (drain the result channel, draw, poll one  *)
(* terminal event, dispatch it), the four key handlers, the three          *)
(* spawn_* schedulers with their blocking background tasks, and the pure   *)
(* helpers of the reply and config paths.                                  *)
(*                                                                         *)
(* Text is a sequence of one-character strings, so that trim, starts_with, *)
(* push, pop and parse are computed character by character.  The status    *)
(* line is only ever assigned and compared and is kept as a string.        *)
(***************************************************************************)
EXTENDS Integers, Sequences, FiniteSets, Bags, TLC

VARIABLES
    app,      \* struct App
    pc,       \* position of main() and run(): "main_raw", "main_alt", "load",
              \* "run_raw", "run_alt", "term_new", then the loop "drain", "draw",
              \* "poll", and "done" when main() has returned
    rx,       \* the unbounded channel (tx, rx): AppMsg values sent, not yet received
    tasks,    \* bag of spawn_blocking closures that have not finished
    file,     \* content of config.toml at app.config_path
    typed,    \* text-editing key presses dispatched so far
    term      \* the terminal: raw input mode enabled, alternate screen entered

vars == <<app, pc, rx, tasks, file, typed, term>>

---------------------------------------------------------------------------
(* Bounds of the model.                                                    *)

\* uids the mailbox may hold: 1..MaxUid
MaxUid == 2
\* spawned tasks that may be unfinished at once
MaxTasks == 2
\* text-editing key presses (characters, Backspace) in one run
MaxTyped == 2
\* number of j/Down presses the scroll offset is followed for
MaxScroll == 1
MaxSubject == 4
MaxSaving == 1

---------------------------------------------------------------------------
(* Text.                                                                   *)

UPPER == <<"A","B","C","D","E","F","G","H","I","J","K","L","M",
           "N","O","P","Q","R","S","T","U","V","W","X","Y","Z">>
LOWER == <<"a","b","c","d","e","f","g","h","i","j","k","l","m",
           "n","o","p","q","r","s","t","u","v","w","x","y","z">>
DIGITS == <<"0","1","2","3","4","5","6","7","8","9">>

\* char::is_whitespace, on the characters the model uses
is_whitespace(c) == c \in {" ", "\n", "\t", "\r"}

\* char::is_ascii_digit
is_ascii_digit(c) == \E i \in 1..10 : DIGITS[i] = c

\* char::to_ascii_lowercase
to_ascii_lowercase_char(c) ==
    IF \E i \in 1..26 : UPPER[i] = c
    THEN LOWER[CHOOSE i \in 1..26 : UPPER[i] = c]
    ELSE c

\* str::to_ascii_lowercase
to_ascii_lowercase(s) == [i \in 1..Len(s) |-> to_ascii_lowercase_char(s[i])]

\* str::starts_with
starts_with(s, p) == Len(s) >= Len(p) /\ SubSeq(s, 1, Len(p)) = p

RECURSIVE trim_end(_)
\* str::trim_end
trim_end(s) ==
    IF s = <<>> \/ ~is_whitespace(s[Len(s)]) THEN s
    ELSE trim_end(SubSeq(s, 1, Len(s) - 1))

RECURSIVE trim_start(_)
\* str::trim_start
trim_start(s) ==
    IF s = <<>> \/ ~is_whitespace(s[1]) THEN s
    ELSE trim_start(Tail(s))

\* str::trim
trim(s) == trim_end(trim_start(s))

\* String::pop (the popped character is discarded by every caller)
pop(s) == IF s = <<>> THEN s ELSE SubSeq(s, 1, Len(s) - 1)

\* String::push
push(s, ch) == Append(s, ch)

\* str::find(char): index of the first occurrence, 0 when there is none
find(s, ch) ==
    IF \E i \in 1..Len(s) : s[i] = ch
    THEN CHOOSE i \in 1..Len(s) : s[i] = ch /\ \A j \in 1..(i - 1) : s[j] # ch
    ELSE 0

\* str::contains(char)
contains(s, ch) == \E i \in 1..Len(s) : s[i] = ch

RECURSIVE to_string(_)
\* u16::to_string / usize Display: decimal digits, no sign, no leading zeros
to_string(n) ==
    IF n < 10 THEN <<DIGITS[n + 1]>>
    ELSE Append(to_string(n \div 10), DIGITS[(n % 10) + 1])

digit_value(c) == (CHOOSE i \in 1..10 : DIGITS[i] = c) - 1

RECURSIVE digits_value(_)
digits_value(s) ==
    IF s = <<>> THEN 0
    ELSE digits_value(SubSeq(s, 1, Len(s) - 1)) * 10 + digit_value(s[Len(s)])

U16_MAX == 65535

\* str::parse::<u16>: an optional leading '+', then one or more decimal
\* digits whose value fits 16 bits; the error texts are ParseIntError's
parse_u16(s) ==
    LET d == IF s # <<>> /\ s[1] = "+" /\ Len(s) > 1 THEN Tail(s) ELSE s IN
    IF s = <<>> THEN [ok |-> FALSE, err |-> "cannot parse integer from empty string"]
    ELSE IF \E i \in 1..Len(d) : ~is_ascii_digit(d[i])
         THEN [ok |-> FALSE, err |-> "invalid digit found in string"]
    ELSE IF digits_value(d) > U16_MAX
         THEN [ok |-> FALSE, err |-> "number too large to fit in target type"]
    ELSE [ok |-> TRUE, val |-> digits_value(d)]

---------------------------------------------------------------------------
(* mail/mod.rs, config.rs: the data.                                       *)

\* struct MessageSummary
MessageSummary(uid, from, date, subject) ==
    [uid |-> uid, from |-> from, date |-> date, subject |-> subject]

\* struct MailConfig
MailConfig(host, port, username, password, starttls) ==
    [host |-> host, port |-> port, username |-> username,
     password |-> password, starttls |-> starttls]

\* struct UserConfig
UserConfig(name, email) == [name |-> name, email |-> email]

\* struct Config
Config(imap, smtp, user) == [imap |-> imap, smtp |-> smtp, user |-> user]

\* const DEFAULT_CONFIG, as toml::from_str reads it
DEFAULT_CONFIG ==
    Config(MailConfig(<<"1","2","7",".","0",".","0",".","1">>, 1143, <<"y","o","u","@","e","m","a","i","l",".","m","l">>, <<"B","R","I","D","G","E","_","P","A","S","S","W","O","R","D">>, TRUE),
           MailConfig(<<"1","2","7",".","0",".","0",".","1">>, 1025, <<"y","o","u","@","e","m","a","i","l",".","m","l">>, <<"B","R","I","D","G","E","_","P","A","S","S","W","O","R","D">>, TRUE),
           UserConfig(<<"Y","o","u","r"," ","N","a","m","e">>, <<"y","o","u","@","e","m","a","i","l",".","m","l">>))

\* Option<T>: None is the empty sequence, Some(v) the sequence <<v>>
None == <<>>
Some(v) == <<v>>

\* enum View
Views == {"List", "Mail", "Compose", "Config"}

\* enum ComposeField
ComposeFields == {"To", "Subject", "Body"}

\* enum ConfigField, in declaration order
ConfigFields ==
    <<"ImapHost", "ImapPort", "ImapUser", "ImapPass", "ImapStarttls",
      "SmtpHost", "SmtpPort", "SmtpUser", "SmtpPass", "SmtpStarttls",
      "UserName", "UserEmail">>

\* ConfigEditState::from_config
from_config_mixing(c) ==
    [focus |-> "ImapHost",
     imap_host |-> c.imap.host,
     imap_port |-> to_string(c.imap.port),
     imap_user |-> c.imap.username,
     imap_pass |-> c.imap.password,
     imap_starttls |-> c.imap.starttls,
     smtp_host |-> c.imap.host,
     smtp_port |-> to_string(c.smtp.port),
     smtp_user |-> c.smtp.username,
     smtp_pass |-> c.smtp.password,
     smtp_starttls |-> c.smtp.starttls,
     user_name |-> c.user.name,
     user_email |-> c.user.email]

from_config(c) ==
    [focus |-> "ImapHost",
     imap_host |-> c.imap.host,
     imap_port |-> to_string(c.imap.port),
     imap_user |-> c.imap.username,
     imap_pass |-> c.imap.password,
     imap_starttls |-> c.imap.starttls,
     smtp_host |-> c.smtp.host,
     smtp_port |-> to_string(c.smtp.port),
     smtp_user |-> c.smtp.username,
     smtp_pass |-> c.smtp.password,
     smtp_starttls |-> c.smtp.starttls,
     user_name |-> c.user.name,
     user_email |-> c.user.email]

\* enum AppMsg
MailList(list) == [type |-> "MailList", list |-> list]
MailBody(header, body) == [type |-> "MailBody", header |-> header, body |-> body]
Status(s) == [type |-> "Status", s |-> s]

\* fn clamp_dec
clamp_dec(v) == IF v = 0 THEN 0 ELSE v - 1

Min(a, b) == IF a <= b THEN a ELSE b

\* the literal "Loading..." of handle_list_keys and start_reply
LOADING == <<"L","o","a","d","i","n","g",".",".",".">>

---------------------------------------------------------------------------
(* The spawn_* schedulers.  Each sends its progress status on tx at once   *)
(* and hands a closure to spawn_blocking; the closure is a record of what  *)
(* it captured.  A scheduler's value is what it sent and what it spawned.  *)

NoEffect == [sent |-> <<>>, spawned |-> <<>>]

\* spawn_refresh_list that leaves the progress status unsent
spawn_refresh_list_silent(config) ==
    [sent |-> <<>>,
     spawned |-> <<[kind |-> "list", config |-> config]>>]

\* fn spawn_refresh_list
spawn_refresh_list(config) ==
    [sent |-> <<Status("Fetching mail list...")>>,
     spawned |-> <<[kind |-> "list", config |-> config]>>]

\* fn spawn_fetch_body
spawn_fetch_body(config, header) ==
    [sent |-> <<Status("Fetching body (uid=" \o ToString(header.uid) \o ")...")>>,
     spawned |-> <<[kind |-> "body", config |-> config, header |-> header]>>]

\* fn spawn_send_mail
spawn_send_mail(config, to, subject, body) ==
    [sent |-> <<Status("Sending...")>>,
     spawned |-> <<[kind |-> "send", config |-> config, to |-> to,
                    subject |-> subject, body |-> body]>>]

---------------------------------------------------------------------------
(* Compose and reply helpers.                                              *)

\* fn reset_compose_new
reset_compose_new(a) ==
    [a EXCEPT !.compose = [to |-> <<>>, subject |-> <<>>, body |-> <<>>,
                           quote |-> <<>>, focus |-> "To"]]

\* fn compose_full_body
compose_full_body_untrimmed(c) ==
    IF c.quote = <<>> THEN c.body
    ELSE IF c.body = <<>> THEN c.quote
    ELSE c.body \o <<"\n", "\n">> \o c.quote

compose_full_body(c) ==
    LET body == trim_end(c.body)
        quote == trim_end(c.quote)
    IN IF quote = <<>> THEN body
       ELSE IF body = <<>> THEN quote
       ELSE body \o <<"\n", "\n">> \o quote

RECURSIVE split_whitespace(_)
\* str::split_whitespace: the maximal runs of non-whitespace, in order
split_whitespace(s) ==
    LET t == trim_start(s) IN
    IF t = <<>> THEN <<>>
    ELSE LET n == IF \E i \in 1..Len(t) : is_whitespace(t[i])
                  THEN CHOOSE i \in 1..Len(t) :
                         is_whitespace(t[i]) /\ \A j \in 1..(i - 1) : ~is_whitespace(t[j])
                  ELSE Len(t) + 1
         IN <<SubSeq(t, 1, n - 1)>> \o split_whitespace(SubSeq(t, n, Len(t)))

RECURSIVE trim_matches(_, _)
\* str::trim_matches with a set of characters
trim_matches(s, cs) ==
    IF s # <<>> /\ s[1] \in cs THEN trim_matches(Tail(s), cs)
    ELSE IF s # <<>> /\ s[Len(s)] \in cs THEN trim_matches(SubSeq(s, 1, Len(s) - 1), cs)
    ELSE s

\* fn extract_reply_to
extract_reply_to(from) ==
    LET s == trim(from)
        l == find(s, "<")
        rest == SubSeq(s, l + 1, Len(s))
        r == find(rest, ">")
        addr == trim(SubSeq(rest, 1, r - 1))
        toks == split_whitespace(s)
        t(i) == trim_matches(toks[i], {"<", ">", ",", ";"})
    IN IF l > 0 /\ r > 0 /\ addr # <<>> THEN addr
       ELSE IF \E i \in 1..Len(toks) : contains(t(i), "@")
            THEN t(CHOOSE i \in 1..Len(toks) :
                     contains(t(i), "@") /\ \A j \in 1..(i - 1) : ~contains(t(j), "@"))
       ELSE s

\* fn make_reply_subject
make_reply_subject_prefixing(subject) ==
    LET s == trim(subject) IN
    IF s = <<>> THEN <<"R", "e", ":">>
    ELSE <<"R", "e", ":", " ">> \o s

make_reply_subject(subject) ==
    LET s == trim(subject) IN
    IF s = <<>> THEN <<"R", "e", ":">>
    ELSE IF starts_with(to_ascii_lowercase(s), <<"r", "e", ":">>) THEN s
    ELSE <<"R", "e", ":", " ">> \o s

RECURSIVE replace_crlf(_)
\* str::replace("\r\n", "\n")
replace_crlf(s) ==
    IF Len(s) < 2 THEN s
    ELSE IF s[1] = "\r" /\ s[2] = "\n" THEN <<"\n">> \o replace_crlf(SubSeq(s, 3, Len(s)))
    ELSE <<s[1]>> \o replace_crlf(Tail(s))

RECURSIVE lines(_)
\* str::lines on text without "\r\n": the pieces between "\n", the last
\* one dropped when it is empty
lines(s) ==
    IF s = <<>> THEN <<>>
    ELSE LET n == find(s, "\n") IN
         IF n = 0 THEN <<s>>
         ELSE <<SubSeq(s, 1, n - 1)>> \o lines(SubSeq(s, n + 1, Len(s)))

RECURSIVE quote_join(_)
quote_join(ls) ==
    IF ls = <<>> THEN <<>>
    ELSE IF Len(ls) = 1 THEN <<">", " ">> \o ls[1]
    ELSE <<">", " ">> \o ls[1] \o <<"\n">> \o quote_join(Tail(ls))

\* fn quote_lines
quote_lines(text) ==
    LET out == quote_join(lines(replace_crlf(text))) IN
    IF out = <<>> THEN <<">", " ">> ELSE out

\* fn make_reply_quote
make_reply_quote(header, body) ==
    LET from == IF header.from = <<>> THEN <<"(","u","n","k","n","o","w","n",")">> ELSE header.from
        date == IF header.date = <<>> THEN <<"(","u","n","k","n","o","w","n"," ","d","a","t","e",")">> ELSE header.date
        intro == <<"O", "n", " ">> \o date \o <<",", " ">> \o from
                   \o <<" ", "w", "r", "o", "t", "e", ":">>
    IN intro \o <<"\n">> \o quote_lines(body)

\* start_reply that only refuses an empty body
start_reply_unguarded(a) ==
    IF a.current_header = None THEN [a EXCEPT !.status = "No mail selected"]
    ELSE IF trim(a.current_body) = <<>>
         THEN [a EXCEPT !.status = "Mail is still loading"]
    ELSE LET h == a.current_header[1] IN
         [a EXCEPT !.compose = [to |-> extract_reply_to(h.from),
                                subject |-> make_reply_subject(h.subject),
                                body |-> <<>>,
                                quote |-> make_reply_quote(h, a.current_body),
                                focus |-> "Body"],
                   !.view = "Compose",
                   !.status = "Reply"]

\* fn start_reply
start_reply(a) ==
    IF a.current_header = None THEN [a EXCEPT !.status = "No mail selected"]
    ELSE IF trim(a.current_body) = <<>> \/ trim(a.current_body) = LOADING
         THEN [a EXCEPT !.status = "Mail is still loading"]
    ELSE LET h == a.current_header[1] IN
         [a EXCEPT !.compose = [to |-> extract_reply_to(h.from),
                                subject |-> make_reply_subject(h.subject),
                                body |-> <<>>,
                                quote |-> make_reply_quote(h, a.current_body),
                                focus |-> "Body"],
                   !.view = "Compose",
                   !.status = "Reply"]

---------------------------------------------------------------------------
(* Key events.  KeyCode::Char(c) is the one-character string c; the other  *)
(* key codes are the names below.  ctrl is KeyModifiers::CONTROL.          *)

SpecialKeys == {"Enter", "Esc", "Tab", "BackTab", "Backspace", "Up", "Down", "F1"}

IsChar(code) == code \notin SpecialKeys

Key(code, ctrl) == [code |-> code, ctrl |-> ctrl]

\* mods.contains(KeyModifiers::CONTROL) && matches!(code, KeyCode::Char('s'))
IsCtrlS(k) == k.ctrl /\ k.code = "s"

\* u16::saturating_add(1)
saturating_add(v) == IF v = U16_MAX THEN v ELSE v + 1

\* u16::saturating_sub(1)
saturating_sub(v) == IF v = 0 THEN 0 ELSE v - 1

---------------------------------------------------------------------------
(* The key handlers.  Each gives the App after the key and what it         *)
(* scheduled: [app, eff].                                                  *)

\* handle_list_keys, KeyCode::Enter
open_selected_headerless(a) ==
    IF a.selected + 1 <= Len(a.messages)
    THEN LET m == a.messages[a.selected + 1] IN
         [app |-> [a EXCEPT !.view = "Mail",
                            !.current_body = LOADING],
          eff |-> spawn_fetch_body(a.config, m)]
    ELSE [app |-> a, eff |-> NoEffect]

open_selected(a) ==
    IF a.selected + 1 <= Len(a.messages)
    THEN LET m == a.messages[a.selected + 1] IN
         [app |-> [a EXCEPT !.view = "Mail",
                            !.current_header = Some(m),
                            !.current_body = LOADING],
          eff |-> spawn_fetch_body(a.config, m)]
    ELSE [app |-> a, eff |-> NoEffect]

\* handle_list_keys, KeyCode::Char('j') | KeyCode::Down
select_next(a) ==
    IF a.messages # <<>>
    THEN [a EXCEPT !.selected = Min(a.selected + 1, Len(a.messages) - 1)]
    ELSE a

\* handle_list_keys, KeyCode::Char('k') | KeyCode::Up
select_prev(a) == [a EXCEPT !.selected = clamp_dec(a.selected)]

\* fn handle_list_keys
handle_list_keys(a, k) ==
    CASE k.code \in {"j", "Down"} -> [app |-> select_next(a), eff |-> NoEffect]
      [] k.code \in {"k", "Up"} -> [app |-> select_prev(a), eff |-> NoEffect]
      [] k.code = "Enter" -> open_selected(a)
      [] k.code = "o" -> [app |-> a, eff |-> spawn_refresh_list(a.config)]
      [] k.code = "c" ->
            [app |-> [reset_compose_new(a) EXCEPT !.view = "Compose",
                                                  !.status = "Compose"],
             eff |-> NoEffect]
      [] OTHER -> [app |-> a, eff |-> NoEffect]

\* fn handle_mail_keys
handle_mail_keys(a, k) ==
    CASE k.code = "Esc" ->
            [app |-> [a EXCEPT !.view = "List", !.status = "Back"], eff |-> NoEffect]
      [] k.code \in {"j", "Down"} ->
            [app |-> [a EXCEPT !.body_scroll = saturating_add(a.body_scroll)],
             eff |-> NoEffect]
      [] k.code \in {"k", "Up"} ->
            [app |-> [a EXCEPT !.body_scroll = saturating_sub(a.body_scroll)],
             eff |-> NoEffect]
      [] k.code = "c" ->
            [app |-> [reset_compose_new(a) EXCEPT !.view = "Compose",
                                                  !.status = "Compose"],
             eff |-> NoEffect]
      [] k.code = "r" -> [app |-> start_reply(a), eff |-> NoEffect]
      [] k.code = "o" ->
            [app |-> [a EXCEPT !.status = "Refreshing..."],
             eff |-> spawn_refresh_list(a.config)]
      [] OTHER -> [app |-> a, eff |-> NoEffect]

\* handle_compose_keys, the Control+S branch
compose_send_untrimmed(a) ==
    IF a.compose.to = <<>>
    THEN [app |-> [a EXCEPT !.status = "To is empty"], eff |-> NoEffect]
    ELSE IF a.compose.subject = <<>>
    THEN [app |-> [a EXCEPT !.status = "Subject is empty"], eff |-> NoEffect]
    ELSE [app |-> a,
          eff |-> spawn_send_mail(a.config, a.compose.to, a.compose.subject,
                                  compose_full_body(a.compose))]

compose_send(a) ==
    IF trim(a.compose.to) = <<>>
    THEN [app |-> [a EXCEPT !.status = "To is empty"], eff |-> NoEffect]
    ELSE IF trim(a.compose.subject) = <<>>
    THEN [app |-> [a EXCEPT !.status = "Subject is empty"], eff |-> NoEffect]
    ELSE [app |-> a,
          eff |-> spawn_send_mail(a.config, a.compose.to, a.compose.subject,
                                  compose_full_body(a.compose))]

\* handle_compose_keys, KeyCode::Tab
compose_tab(f) ==
    CASE f = "To" -> "Subject"
      [] f = "Subject" -> "Body"
      [] f = "Body" -> "To"

\* handle_compose_keys, KeyCode::Backspace
compose_backspace(c) ==
    CASE c.focus = "To" -> [c EXCEPT !.to = pop(c.to)]
      [] c.focus = "Subject" -> [c EXCEPT !.subject = pop(c.subject)]
      [] c.focus = "Body" -> [c EXCEPT !.body = pop(c.body)]

\* handle_compose_keys, KeyCode::Enter
compose_enter(c) ==
    IF c.focus = "Body" THEN [c EXCEPT !.body = push(c.body, "\n")]
    ELSE [c EXCEPT !.focus = CASE c.focus = "To" -> "Subject"
                               [] c.focus = "Subject" -> "Body"
                               [] c.focus = "Body" -> "Body"]

\* handle_compose_keys, KeyCode::Char(ch)
compose_char(c, ch) ==
    CASE c.focus = "To" -> [c EXCEPT !.to = push(c.to, ch)]
      [] c.focus = "Subject" -> [c EXCEPT !.subject = push(c.subject, ch)]
      [] c.focus = "Body" -> [c EXCEPT !.body = push(c.body, ch)]

\* fn handle_compose_keys
handle_compose_keys(a, k) ==
    IF IsCtrlS(k) THEN compose_send(a)
    ELSE [app |->
            CASE k.code = "Esc" ->
                    [a EXCEPT !.view = "List", !.status = "Compose canceled"]
              [] k.code = "Tab" ->
                    [a EXCEPT !.compose.focus = compose_tab(a.compose.focus)]
              [] k.code = "Backspace" ->
                    [a EXCEPT !.compose = compose_backspace(a.compose)]
              [] k.code = "Enter" ->
                    [a EXCEPT !.compose = compose_enter(a.compose)]
              [] IsChar(k.code) ->
                    [a EXCEPT !.compose = compose_char(a.compose, k.code)]
              [] OTHER -> a,
          eff |-> NoEffect]

---------------------------------------------------------------------------
(* The config editor.                                                      *)

IndexOf(f) == CHOOSE i \in 1..Len(ConfigFields) : ConfigFields[i] = f

\* next_field that stops at the last field
next_field_stopping(f) ==
    IF f = "UserEmail" THEN "UserEmail" ELSE ConfigFields[IndexOf(f) + 1]

\* fn next_field
next_field(f) ==
    CASE f = "ImapHost" -> "ImapPort"
      [] f = "ImapPort" -> "ImapUser"
      [] f = "ImapUser" -> "ImapPass"
      [] f = "ImapPass" -> "ImapStarttls"
      [] f = "ImapStarttls" -> "SmtpHost"
      [] f = "SmtpHost" -> "SmtpPort"
      [] f = "SmtpPort" -> "SmtpUser"
      [] f = "SmtpUser" -> "SmtpPass"
      [] f = "SmtpPass" -> "SmtpStarttls"
      [] f = "SmtpStarttls" -> "UserName"
      [] f = "UserName" -> "UserEmail"
      [] f = "UserEmail" -> "ImapHost"

\* fn prev_field
prev_field(f) ==
    CASE f = "ImapHost" -> "UserEmail"
      [] f = "ImapPort" -> "ImapHost"
      [] f = "ImapUser" -> "ImapPort"
      [] f = "ImapPass" -> "ImapUser"
      [] f = "ImapStarttls" -> "ImapPass"
      [] f = "SmtpHost" -> "ImapStarttls"
      [] f = "SmtpPort" -> "SmtpHost"
      [] f = "SmtpUser" -> "SmtpPort"
      [] f = "SmtpPass" -> "SmtpUser"
      [] f = "SmtpStarttls" -> "SmtpPass"
      [] f = "UserName" -> "SmtpStarttls"
      [] f = "UserEmail" -> "UserName"

\* fn field_is_port
field_is_port(f) == f \in {"ImapPort", "SmtpPort"}

\* fn field_is_toggle
field_is_toggle(f) == f \in {"ImapStarttls", "SmtpStarttls"}

\* fn apply_cfg_edit: Err(e) before anything is assigned when a port does
\* not parse, the IMAP port first
apply_cfg_edit_dropping_host(a) ==
    LET e == a.cfg_edit
        imap_port == parse_u16(e.imap_port)
        smtp_port == parse_u16(e.smtp_port)
    IN IF ~imap_port.ok THEN [ok |-> FALSE, err |-> imap_port.err, app |-> a]
       ELSE IF ~smtp_port.ok THEN [ok |-> FALSE, err |-> smtp_port.err, app |-> a]
       ELSE [ok |-> TRUE,
             app |-> [a EXCEPT !.config =
                 Config(MailConfig(a.config.imap.host, imap_port.val, e.imap_user,
                                   e.imap_pass, e.imap_starttls),
                        MailConfig(e.smtp_host, smtp_port.val, e.smtp_user,
                                   e.smtp_pass, e.smtp_starttls),
                        UserConfig(e.user_name, e.user_email))]]

apply_cfg_edit_partial(a) ==
    LET e == a.cfg_edit
        imap_port == parse_u16(e.imap_port)
        smtp_port == parse_u16(e.smtp_port)
        imap == MailConfig(e.imap_host, imap_port.val, e.imap_user,
                           e.imap_pass, e.imap_starttls)
    IN IF ~imap_port.ok THEN [ok |-> FALSE, err |-> imap_port.err, app |-> a]
       ELSE IF ~smtp_port.ok
            THEN [ok |-> FALSE, err |-> smtp_port.err,
                  app |-> [a EXCEPT !.config.imap = imap]]
       ELSE [ok |-> TRUE,
             app |-> [a EXCEPT !.config =
                 Config(imap,
                        MailConfig(e.smtp_host, smtp_port.val, e.smtp_user,
                                   e.smtp_pass, e.smtp_starttls),
                        UserConfig(e.user_name, e.user_email))]]

apply_cfg_edit(a) ==
    LET e == a.cfg_edit
        imap_port == parse_u16(e.imap_port)
        smtp_port == parse_u16(e.smtp_port)
    IN IF ~imap_port.ok THEN [ok |-> FALSE, err |-> imap_port.err, app |-> a]
       ELSE IF ~smtp_port.ok THEN [ok |-> FALSE, err |-> smtp_port.err, app |-> a]
       ELSE [ok |-> TRUE,
             app |-> [a EXCEPT !.config =
                 Config(MailConfig(e.imap_host, imap_port.val, e.imap_user,
                                   e.imap_pass, e.imap_starttls),
                        MailConfig(e.smtp_host, smtp_port.val, e.smtp_user,
                                   e.smtp_pass, e.smtp_starttls),
                        UserConfig(e.user_name, e.user_email))]]

\* The file at config_path: a TOML document that deserializes to a Config,
\* or anything else.
Toml(c) == [parsable |-> TRUE, cfg |-> c]
Garbage == [parsable |-> FALSE]

\* Config::save_to.  fs::write creates or truncates the file, then writes:
\* it can fail before the file is touched or after it was truncated.
save_to(c, f, outcome) ==
    CASE outcome = "ok" -> [ok |-> TRUE, file |-> Toml(c)]
      [] outcome = "create_err" ->
            [ok |-> FALSE, err |-> "Permission denied (os error 13)", file |-> f]
      [] outcome = "write_err" ->
            [ok |-> FALSE, err |-> "No space left on device (os error 28)",
             file |-> Garbage]

\* The terminal as enable_raw_mode and EnterAlternateScreen leave it, and as
\* disable_raw_mode and LeaveAlternateScreen leave it.
TermOn == [raw |-> TRUE, alt |-> TRUE]
TermOff == [raw |-> FALSE, alt |-> FALSE]

\* fn open_in_editor: the editor cannot be started, exits non-zero, or
\* exits zero.  Raw mode and the alternate screen are left before the
\* editor is started; the `?` on Command::status returns before they are
\* entered again.
open_in_editor(outcome) ==
    CASE outcome = "spawn_err" ->
            [ok |-> FALSE, err |-> "No such file or directory (os error 2)",
             term |-> TermOff]
      [] outcome = "nonzero" ->
            [ok |-> FALSE, err |-> "editor exited with non-zero", term |-> TermOn]
      [] outcome = "zero" -> [ok |-> TRUE, term |-> TermOn]

\* fn reload_config_from_file
reload_config_from_file(a, f) ==
    IF ~f.parsable THEN [ok |-> FALSE, err |-> "TOML parse error", app |-> a]
    ELSE [ok |-> TRUE,
          app |-> [a EXCEPT !.config = f.cfg, !.cfg_edit = from_config(f.cfg)]]

\* handle_config_keys, the Control+S branch
config_save(a, f, io) ==
    LET r == apply_cfg_edit(a) IN
    IF r.ok
    THEN LET s == save_to(r.app.config, f, io.save) IN
         IF ~s.ok
         THEN [app |-> [r.app EXCEPT !.status = "Save error: " \o s.err],
               eff |-> NoEffect, file |-> s.file, term |-> None]
         ELSE [app |-> [r.app EXCEPT !.status = "Saved config.toml",
                                     !.view = a.return_view],
               eff |-> spawn_refresh_list(r.app.config), file |-> s.file,
               term |-> None]
    ELSE [app |-> [r.app EXCEPT !.status = "Config invalid: " \o r.err],
          eff |-> NoEffect, file |-> f, term |-> None]

\* config_editor that reloads the file whatever the editor's exit status
config_editor_ignoring_exit(a, f, io) ==
    LET ed == open_in_editor(io.editor)
        f2 == IF io.editor = "spawn_err" THEN f ELSE io.edited
        r == reload_config_from_file(a, f2)
    IN IF r.ok
       THEN [app |-> [r.app EXCEPT !.status = "Reloaded config"],
             eff |-> spawn_refresh_list(r.app.config), file |-> f2,
             term |-> Some(ed.term)]
       ELSE [app |-> [a EXCEPT !.status = "Reload failed: " \o r.err],
             eff |-> NoEffect, file |-> f2, term |-> Some(ed.term)]

\* handle_config_keys, KeyCode::Char('e'): the editor runs on the file and
\* leaves io.edited there, unless it could not be started
config_editor(a, f, io) ==
    LET ed == open_in_editor(io.editor)
        f2 == IF io.editor = "spawn_err" THEN f ELSE io.edited
    IN IF ~ed.ok
       THEN [app |-> [a EXCEPT !.status = "Editor error: " \o ed.err],
             eff |-> NoEffect, file |-> f2, term |-> Some(ed.term)]
       ELSE LET r == reload_config_from_file(a, f2) IN
            IF r.ok
            THEN [app |-> [r.app EXCEPT !.status = "Reloaded config"],
                  eff |-> spawn_refresh_list(r.app.config), file |-> f2,
                  term |-> Some(ed.term)]
            ELSE [app |-> [a EXCEPT !.status = "Reload failed: " \o r.err],
                  eff |-> NoEffect, file |-> f2, term |-> Some(ed.term)]

\* handle_config_keys, KeyCode::Char(' ')
config_space(e) ==
    IF field_is_toggle(e.focus)
    THEN CASE e.focus = "ImapStarttls" -> [e EXCEPT !.imap_starttls = ~e.imap_starttls]
           [] e.focus = "SmtpStarttls" -> [e EXCEPT !.smtp_starttls = ~e.smtp_starttls]
    ELSE e

\* handle_config_keys, KeyCode::Backspace
config_backspace(e) ==
    CASE e.focus = "ImapHost" -> [e EXCEPT !.imap_host = pop(e.imap_host)]
      [] e.focus = "ImapPort" -> [e EXCEPT !.imap_port = pop(e.imap_port)]
      [] e.focus = "ImapUser" -> [e EXCEPT !.imap_user = pop(e.imap_user)]
      [] e.focus = "ImapPass" -> [e EXCEPT !.imap_pass = pop(e.imap_pass)]
      [] e.focus = "SmtpHost" -> [e EXCEPT !.smtp_host = pop(e.smtp_host)]
      [] e.focus = "SmtpPort" -> [e EXCEPT !.smtp_port = pop(e.smtp_port)]
      [] e.focus = "SmtpUser" -> [e EXCEPT !.smtp_user = pop(e.smtp_user)]
      [] e.focus = "SmtpPass" -> [e EXCEPT !.smtp_pass = pop(e.smtp_pass)]
      [] e.focus = "UserName" -> [e EXCEPT !.user_name = pop(e.user_name)]
      [] e.focus = "UserEmail" -> [e EXCEPT !.user_email = pop(e.user_email)]
      [] OTHER -> e

\* handle_config_keys, KeyCode::Char(ch)
config_char(e, ch) ==
    IF field_is_toggle(e.focus) THEN e
    ELSE IF field_is_port(e.focus) /\ ~is_ascii_digit(ch) THEN e
    ELSE CASE e.focus = "ImapHost" -> [e EXCEPT !.imap_host = push(e.imap_host, ch)]
           [] e.focus = "ImapPort" -> [e EXCEPT !.imap_port = push(e.imap_port, ch)]
           [] e.focus = "ImapUser" -> [e EXCEPT !.imap_user = push(e.imap_user, ch)]
           [] e.focus = "ImapPass" -> [e EXCEPT !.imap_pass = push(e.imap_pass, ch)]
           [] e.focus = "SmtpHost" -> [e EXCEPT !.smtp_host = push(e.smtp_host, ch)]
           [] e.focus = "SmtpPort" -> [e EXCEPT !.smtp_port = push(e.smtp_port, ch)]
           [] e.focus = "SmtpUser" -> [e EXCEPT !.smtp_user = push(e.smtp_user, ch)]
           [] e.focus = "SmtpPass" -> [e EXCEPT !.smtp_pass = push(e.smtp_pass, ch)]
           [] e.focus = "UserName" -> [e EXCEPT !.user_name = push(e.user_name, ch)]
           [] e.focus = "UserEmail" -> [e EXCEPT !.user_email = push(e.user_email, ch)]
           [] OTHER -> e

\* fn handle_config_keys
handle_config_keys(a, k, f, io) ==
    IF IsCtrlS(k) THEN config_save(a, f, io)
    ELSE IF k.code = "e" THEN config_editor(a, f, io)
    ELSE [app |->
            CASE k.code = "Esc" -> [a EXCEPT !.view = a.return_view, !.status = "Back"]
              [] k.code = "Tab" -> [a EXCEPT !.cfg_edit.focus = next_field(a.cfg_edit.focus)]
              [] k.code = "BackTab" ->
                    [a EXCEPT !.cfg_edit.focus = prev_field(a.cfg_edit.focus)]
              [] k.code = " " -> [a EXCEPT !.cfg_edit = config_space(a.cfg_edit)]
              [] k.code = "Backspace" ->
                    [a EXCEPT !.cfg_edit = config_backspace(a.cfg_edit)]
              [] IsChar(k.code) -> [a EXCEPT !.cfg_edit = config_char(a.cfg_edit, k.code)]
              [] OTHER -> a,
          eff |-> NoEffect, file |-> f, term |-> None]

---------------------------------------------------------------------------
(* run(): applying one received AppMsg (the match of the drain loop).      *)

\* apply_mail_list that appends the arriving list to the one held
apply_mail_list_merging(a, list) ==
    LET l == a.messages \o list IN
    [a EXCEPT !.messages = l,
              !.selected = IF l = <<>> THEN 0 ELSE Min(a.selected, Len(l) - 1),
              !.status = "Loaded " \o ToString(Len(list)) \o " messages"]

\* apply_mail_list without the clamp of the selection
apply_mail_list_unclamped(a, list) ==
    [a EXCEPT !.messages = list,
              !.status = "Loaded " \o ToString(Len(list)) \o " messages"]

\* run, AppMsg::MailList(list)
apply_mail_list(a, list) ==
    [a EXCEPT !.messages = list,
              !.selected = IF list = <<>> THEN 0 ELSE Min(a.selected, Len(list) - 1),
              !.status = "Loaded " \o ToString(Len(list)) \o " messages"]

\* apply_mail_body that stores the text and leaves the header
apply_mail_body_keeping_header(a, header, body) ==
    [a EXCEPT !.current_body = body,
              !.body_scroll = 0,
              !.status = "Mail loaded"]

\* apply_mail_body that also starts a fresh compose draft
apply_mail_body_resetting(a, header, body) ==
    [reset_compose_new(a) EXCEPT !.current_header = Some(header),
                                 !.current_body = body,
                                 !.body_scroll = 0,
                                 !.status = "Mail loaded"]

\* apply_mail_body fenced on the message that is open
apply_mail_body_fenced(a, header, body) ==
    IF a.current_header = Some(header)
    THEN [a EXCEPT !.current_body = body, !.body_scroll = 0, !.status = "Mail loaded"]
    ELSE a

\* run, AppMsg::MailBody { header, body }
apply_mail_body(a, header, body) ==
    [a EXCEPT !.current_header = Some(header),
              !.current_body = body,
              !.body_scroll = 0,
              !.status = "Mail loaded"]

\* run, AppMsg::Status(s)
apply_status_closing(a, s) ==
    [a EXCEPT !.status = s, !.view = "List", !.current_header = None,
              !.current_body = <<>>]

apply_status(a, s) == [a EXCEPT !.status = s]

apply_msg(a, msg) ==
    CASE msg.type = "MailList" -> apply_mail_list(a, msg.list)
      [] msg.type = "MailBody" -> apply_mail_body(a, msg.header, msg.body)
      [] msg.type = "Status" -> apply_status(a, msg.s)

\* run, Event::Key of kind Press: q, then g outside the config view, then
\* the handler of the current view
run_key_local(a, k, f, io) ==
    IF k.code = "q"
    THEN [app |-> a, eff |-> NoEffect, file |-> f, quit |-> TRUE, term |-> None]
    ELSE IF k.code = "g" /\ a.view = "List"
    THEN [app |-> [a EXCEPT !.return_view = a.view,
                            !.cfg_edit = from_config(a.config),
                            !.view = "Config",
                            !.status = "Config"],
          eff |-> NoEffect, file |-> f, quit |-> FALSE, term |-> None]
    ELSE LET r == CASE a.view = "List" -> handle_list_keys(a, k)
                    [] a.view = "Mail" -> handle_mail_keys(a, k)
                    [] a.view = "Compose" -> handle_compose_keys(a, k)
                    [] a.view = "Config" -> handle_config_keys(a, k, f, io)
         IN [app |-> r.app, eff |-> r.eff,
             file |-> IF a.view = "Config" THEN r.file ELSE f,
             quit |-> FALSE,
             term |-> IF a.view = "Config" THEN r.term ELSE None]

\* run_key with g taken in every view
run_key_reentrant(a, k, f, io) ==
    IF k.code = "q"
    THEN [app |-> a, eff |-> NoEffect, file |-> f, quit |-> TRUE, term |-> None]
    ELSE IF k.code = "g"
    THEN [app |-> [a EXCEPT !.return_view = a.view,
                            !.cfg_edit = from_config(a.config),
                            !.view = "Config",
                            !.status = "Config"],
          eff |-> NoEffect, file |-> f, quit |-> FALSE, term |-> None]
    ELSE LET r == CASE a.view = "List" -> handle_list_keys(a, k)
                    [] a.view = "Mail" -> handle_mail_keys(a, k)
                    [] a.view = "Compose" -> handle_compose_keys(a, k)
                    [] a.view = "Config" -> handle_config_keys(a, k, f, io)
         IN [app |-> r.app, eff |-> r.eff,
             file |-> IF a.view = "Config" THEN r.file ELSE f,
             quit |-> FALSE,
             term |-> IF a.view = "Config" THEN r.term ELSE None]

run_key(a, k, f, io) ==
    IF k.code = "q"
    THEN [app |-> a, eff |-> NoEffect, file |-> f, quit |-> TRUE, term |-> None]
    ELSE IF k.code = "g" /\ a.view # "Config"
    THEN [app |-> [a EXCEPT !.return_view = a.view,
                            !.cfg_edit = from_config(a.config),
                            !.view = "Config",
                            !.status = "Config"],
          eff |-> NoEffect, file |-> f, quit |-> FALSE, term |-> None]
    ELSE LET r == CASE a.view = "List" -> handle_list_keys(a, k)
                    [] a.view = "Mail" -> handle_mail_keys(a, k)
                    [] a.view = "Compose" -> handle_compose_keys(a, k)
                    [] a.view = "Config" -> handle_config_keys(a, k, f, io)
         IN [app |-> r.app, eff |-> r.eff,
             file |-> IF a.view = "Config" THEN r.file ELSE f,
             quit |-> FALSE,
             term |-> IF a.view = "Config" THEN r.term ELSE None]

---------------------------------------------------------------------------
(* The blocking closures of spawn_refresh_list, spawn_fetch_body and       *)
(* spawn_send_mail: the one message each sends when its call returns.      *)

\* the closure of spawn_refresh_list
refresh_result(t, res) ==
    IF res.ok THEN MailList(res.val)
    ELSE Status("IMAP list error: " \o res.err)

\* the closure of spawn_fetch_body
fetch_body_result(t, res) ==
    IF res.ok THEN MailBody(t.header, res.val)
    ELSE Status("IMAP body error: " \o res.err)

\* the closure of spawn_send_mail
send_result(t, res) ==
    IF res.ok THEN Status("Sent")
    ELSE Status("SMTP error: " \o res.err)

task_result(t, res) ==
    CASE t.kind = "list" -> refresh_result(t, res)
      [] t.kind = "body" -> fetch_body_result(t, res)
      [] t.kind = "send" -> send_result(t, res)

---------------------------------------------------------------------------
(* The environment: the mailbox, the network, the file system, the keys.   *)

Ok(v) == [ok |-> TRUE, val |-> v]
Err(e) == [ok |-> FALSE, err |-> e]

\* The messages of the mailbox, by uid.
Message(uid) ==
    CASE uid = 1 -> MessageSummary(1, <<"J","a","n","e"," ","D","o","e"," ","<","j","a","n","e","@","x",".","c","o","m",">">>, <<"M","o","n">>, <<"h","i">>)
      [] uid = 2 -> MessageSummary(2, <<>>, <<>>, <<"R","E",":","x">>)
      [] OTHER -> MessageSummary(uid, <<"b","o","b","@","y",".","o","r","g">>, <<"T","u","e">>, <<>>)

\* The text/plain body of the message with this uid.
BodyText(uid) == <<"b", "o", "d", "y">> \o to_string(uid)

\* The lists mail::imap::fetch_summaries may return from a mailbox that
\* holds uids 1..m, m <= n: their summaries in ascending uid order.
Mailboxes(n) == {[i \in 1..m |-> Message(i)] : m \in 0..n}

\* The texts mail::imap::fetch_body_plain may return for a uid: the
\* message's text, or the empty text when it has no text/plain part.
Bodies(uid) == {BodyText(uid), <<>>}

\* What the call of a closure may return, in a world w.
Results(t, w) ==
    CASE t.kind = "list" -> {Ok(l) : l \in w.lists} \cup {Err("connection refused")}
      [] t.kind = "body" ->
            {Ok(b) : b \in w.bodies[t.header.uid]} \cup {Err("connection refused")}
      [] t.kind = "send" -> {Ok(<<>>), Err("connection refused")}

\* A config.toml found at startup.
FileConfig ==
    Config(MailConfig(<<"i">>, 6553, <<"u">>, <<"p">>, FALSE),
           MailConfig(<<"s">>, 0, <<"u">>, <<"p">>, TRUE),
           UserConfig(<<"N">>, <<"u", "@", "x">>))

\* What the external editor may leave in the file.
EditedConfig ==
    Config(MailConfig(<<"j">>, 143, <<"u">>, <<"p">>, TRUE),
           MailConfig(<<"s">>, 25, <<"u">>, <<"p">>, TRUE),
           UserConfig(<<"N">>, <<"u", "@", "x">>))

\* The outcomes of the file system and of the editor that a key press can
\* meet: those of save_to for Control+S in the config view, those of the
\* editor for e in the config view.
IOs(a, k, f) ==
    IF a.view = "Config" /\ IsCtrlS(k)
    THEN [save : {"ok", "create_err", "write_err"}, editor : {"zero"}, edited : {f}]
    ELSE IF a.view = "Config" /\ k.code = "e"
    THEN [save : {"ok"}, editor : {"nonzero", "zero"},
          edited : {f, Toml(EditedConfig), Garbage}]
         \cup [save : {"ok"}, editor : {"spawn_err"}, edited : {f}]
    ELSE [save : {"ok"}, editor : {"zero"}, edited : {f}]

\* A world: whether config.toml exists at startup, the keys the user
\* presses in each view, the lists and the texts the mailbox may return,
\* how many closures the user lets run at once, and the fields of the
\* config view the user types into.
World(created, keys, lists, bodies, inflight, edits) ==
    [created |-> created, keys |-> keys, lists |-> lists, bodies |-> bodies,
     inflight |-> inflight, edits |-> edits]

\* Every field of the config view.
AnyField == {ConfigFields[i] : i \in DOMAIN ConfigFields}

\* Reading mail: the list, opening and scrolling a message, reply and send,
\* a visit to the config view.
SessionKeys ==
    [v \in Views |->
        CASE v = "List" ->
                {Key("j", FALSE), Key("k", FALSE), Key("Enter", FALSE), Key("o", FALSE),
                 Key("g", FALSE), Key("q", FALSE)}
          [] v = "Mail" ->
                {Key("Esc", FALSE), Key("Down", FALSE), Key("Up", FALSE),
                 Key("r", FALSE), Key("q", FALSE)}
          [] v = "Compose" -> {Key("Esc", FALSE), Key("s", TRUE)}
          [] v = "Config" -> {Key("Esc", FALSE)}]

Session ==
    World({FALSE}, SessionKeys, Mailboxes(MaxUid), [uid \in 1..MaxUid |-> Bodies(uid)],
          MaxTasks, AnyField)

\* The subjects a message may carry: every text of at most MaxSubject of
\* these characters.
SubjectChars == {"r", "R", "e", "E", ":", " ", "x"}

Subjects == UNION {[1..n -> SubjectChars] : n \in 0..MaxSubject}

\* Replying: a mailbox of one message whose subject is any of Subjects; the
\* message is opened and answered.
ReplyKeys ==
    [v \in Views |->
        CASE v = "List" -> {Key("Enter", FALSE)}
          [] v = "Mail" -> {Key("r", FALSE)}
          [] OTHER -> {}]

Replying ==
    World({FALSE}, ReplyKeys,
          {<<MessageSummary(1, Message(1).from, Message(1).date, s)>> : s \in Subjects},
          [uid \in 1..MaxUid |-> {BodyText(uid)}], MaxTasks, AnyField)

\* Composing: a new draft is typed into and sent, over an empty mailbox.
ComposeKeys ==
    [v \in Views |->
        CASE v = "List" -> {Key("c", FALSE)}
          [] v = "Compose" ->
                {Key("s", TRUE), Key("Tab", FALSE), Key("x", FALSE), Key(" ", FALSE),
                 Key("Backspace", FALSE), Key("Esc", FALSE)}
          [] OTHER -> {}]

Composing ==
    World({FALSE}, ComposeKeys, Mailboxes(0), [uid \in 1..MaxUid |-> Bodies(uid)],
          MaxTasks, AnyField)

\* Answering: the one message of the mailbox, whose text ends in a line of
\* blanks or not, is opened and answered, or a new draft is started; the
\* draft is typed into and sent.
AnswerKeys ==
    [v \in Views |->
        CASE v = "List" -> {Key("Enter", FALSE), Key("c", FALSE)}
          [] v = "Mail" -> {Key("r", FALSE)}
          [] v = "Compose" ->
                {Key("s", TRUE), Key("Tab", FALSE), Key("x", FALSE), Key(" ", FALSE)}
          [] OTHER -> {}]

Answering ==
    World({FALSE}, AnswerKeys, {<<Message(1)>>},
          [uid \in 1..MaxUid |-> {BodyText(uid), <<"h", "i", "\n", " ">>}],
          MaxTasks, AnyField)

\* Scheduling: every operation is scheduled: a message is opened, the list
\* refreshed from the message view, a draft typed and sent, the IMAP host
\* changed and saved.
ScheduleKeys ==
    [v \in Views |->
        CASE v = "List" -> {Key("Enter", FALSE), Key("g", FALSE), Key("c", FALSE)}
          [] v = "Mail" -> {Key("o", FALSE), Key("Esc", FALSE)}
          [] v = "Compose" -> {Key("x", FALSE), Key("Tab", FALSE), Key("s", TRUE)}
          [] v = "Config" -> {Key("6", FALSE), Key("s", TRUE)}]

Scheduling ==
    World({FALSE}, ScheduleKeys, Mailboxes(1), [uid \in 1..MaxUid |-> {BodyText(uid)}],
          MaxTasks, {"ImapHost"})

\* Reconfiguring: the IMAP host is changed and saved, or config.toml is
\* edited in the external editor, while refreshes are in flight.
ReconfigureKeys ==
    [v \in Views |->
        CASE v = "List" -> {Key("g", FALSE)}
          [] v = "Config" -> {Key("6", FALSE), Key("s", TRUE), Key("e", FALSE)}
          [] OTHER -> {}]

Reconfiguring ==
    World({FALSE}, ReconfigureKeys, Mailboxes(1), [uid \in 1..MaxUid |-> {BodyText(uid)}],
          MaxTasks, {"ImapHost"})

\* Configuring: the IMAP host and the two ports of the config draft are
\* edited and the draft is saved.
ConfigKeys ==
    [v \in Views |->
        CASE v = "List" -> {Key("g", FALSE)}
          [] v = "Config" ->
                {Key("s", TRUE), Key("Tab", FALSE), Key("6", FALSE),
                 Key("Backspace", FALSE)}
          [] OTHER -> {}]

Configuring ==
    World({FALSE}, ConfigKeys, Mailboxes(0), [uid \in 1..MaxUid |-> Bodies(uid)],
          MaxSaving, {"ImapHost", "ImapPort", "SmtpPort"})

\* Listing: the selection is moved and the list refreshed, over a mailbox
\* of up to MaxUid + 1 messages.
ListKeys ==
    [v \in Views |->
        CASE v = "List" -> {Key("j", FALSE), Key("k", FALSE), Key("o", FALSE)}
          [] OTHER -> {}]

Listing ==
    World({FALSE}, ListKeys, Mailboxes(MaxUid + 1), [uid \in 1..MaxUid |-> Bodies(uid)],
          MaxTasks, AnyField)

\* Starting, opening the config view from the list or from a new draft,
\* editing config.toml in the external editor, and quitting.
LifecycleKeys ==
    [v \in Views |->
        CASE v = "List" -> {Key("g", FALSE), Key("c", FALSE), Key("q", FALSE)}
          [] v = "Compose" -> {Key("g", FALSE)}
          [] v = "Config" -> {Key("e", FALSE), Key("Esc", FALSE), Key("q", FALSE)}
          [] OTHER -> {}]

Lifecycle ==
    World({TRUE, FALSE}, LifecycleKeys, Mailboxes(0), [uid \in 1..MaxUid |-> Bodies(uid)],
          MaxSaving, AnyField)

\* A key press that edits text: counted against MaxTyped.
IsTyping(a, k) ==
    /\ a.view \in {"Compose", "Config"}
    /\ ~IsCtrlS(k)
    /\ k.code \notin {"q", "Esc", "Tab", "BackTab"}
    /\ ~(a.view = "Compose" /\ k.code = "g")
    /\ ~(a.view = "Compose" /\ k.code = "Enter" /\ a.compose.focus # "Body")
    /\ ~(a.view = "Config" /\ k.code \in {"e", " ", "Enter"})

---------------------------------------------------------------------------
(* The state machine.                                                      *)

\* run, up to the loop: the App as constructed, and the first refresh when
\* the config file already existed
InitApp(created, config) ==
    [view |-> IF created THEN "Config" ELSE "List",
     return_view |-> "List",
     messages |-> <<>>,
     selected |-> 0,
     current_header |-> None,
     current_body |-> <<>>,
     body_scroll |-> 0,
     compose |-> [to |-> <<>>, subject |-> <<>>, body |-> <<>>, quote |-> <<>>,
                  focus |-> "To"],
     cfg_edit |-> from_config(config),
     status |-> IF created
                THEN "config.toml created. Fill your credentials and press Ctrl+S to save."
                ELSE "Starting...",
     config |-> config]

\* Config::load_or_create: (config, created) and the file it leaves
Loaded(created) == IF created THEN DEFAULT_CONFIG ELSE FileConfig

Init(w) ==
    \E created \in w.created :
      LET l == [created |-> created, config |-> Loaded(created)] IN
        /\ app = InitApp(l.created, l.config)
        /\ file = Toml(l.config)
        /\ pc = "drain"
        /\ rx = IF l.created THEN <<>> ELSE spawn_refresh_list(l.config).sent
        /\ tasks = IF l.created THEN EmptyBag
                   ELSE SetToBag({spawn_refresh_list(l.config).spawned[1]})
        /\ typed = 0
        /\ term = TermOn

\* Drain as `if let`: one message is received, then the frame is drawn
DrainOnce ==
    /\ pc = "drain"
    /\ rx # <<>>
    /\ app' = apply_msg(app, Head(rx))
    /\ rx' = Tail(rx)
    /\ pc' = "draw"
    /\ UNCHANGED <<tasks, file, typed, term>>

\* run: while let Ok(msg) = rx.try_recv() { match msg ... }
Drain ==
    /\ pc = "drain"
    /\ rx # <<>>
    /\ app' = apply_msg(app, Head(rx))
    /\ rx' = Tail(rx)
    /\ UNCHANGED <<pc, tasks, file, typed, term>>

\* run: rx.try_recv() finds the channel empty
DrainEnd ==
    /\ pc = "drain"
    /\ rx = <<>>
    /\ pc' = "draw"
    /\ UNCHANGED <<app, rx, tasks, file, typed, term>>

\* run: terminal.draw
Draw ==
    /\ pc = "draw"
    /\ pc' = "poll"
    /\ UNCHANGED <<app, rx, tasks, file, typed, term>>

\* run: event::poll times out, or the event read is a resize, a key event
\* that is not a press, or any other event: nothing is dispatched
PollIdle ==
    /\ pc = "poll"
    /\ pc' = "drain"
    /\ UNCHANGED <<app, rx, tasks, file, typed, term>>

\* the bag of the closures a scheduler spawned
Spawned(eff) == IF eff.spawned = <<>> THEN EmptyBag ELSE SetToBag({eff.spawned[1]})

\* PollKey that drops the closures in flight when the key press changes the
\* live configuration
PollKeyCancelling(w) ==
    /\ pc = "poll"
    /\ \E k \in w.keys[app.view] : \E io \in IOs(app, k, file) :
        LET r == run_key(app, k, file, io)
            kept == IF r.app.config = app.config THEN tasks ELSE EmptyBag
        IN
        /\ typed' = IF IsTyping(app, k) THEN typed + 1 ELSE typed
        /\ typed' <= MaxTyped
        /\ (app.view = "Config" /\ IsTyping(app, k)) => app.cfg_edit.focus \in w.edits
        /\ r.app.body_scroll <= MaxScroll
        /\ BagCardinality(kept (+) Spawned(r.eff)) <= w.inflight
        /\ app' = r.app
        /\ file' = r.file
        /\ tasks' = kept (+) Spawned(r.eff)
        /\ pc' = IF r.quit THEN "done" ELSE "drain"
        /\ rx' = IF r.quit THEN <<>> ELSE rx \o r.eff.sent
        /\ term' = IF r.quit THEN TermOff
                   ELSE IF r.term = None THEN term ELSE r.term[1]

\* PollKey that calls the gateway itself: the closure a handler scheduled is
\* run before the key press returns
PollKeyAwaiting(w) ==
    /\ pc = "poll"
    /\ \E k \in w.keys[app.view] : \E io \in IOs(app, k, file) :
        LET r == run_key(app, k, file, io) IN
        /\ typed' = IF IsTyping(app, k) THEN typed + 1 ELSE typed
        /\ typed' <= MaxTyped
        /\ (app.view = "Config" /\ IsTyping(app, k)) => app.cfg_edit.focus \in w.edits
        /\ r.app.body_scroll <= MaxScroll
        /\ app' = r.app
        /\ file' = r.file
        /\ tasks' = tasks
        /\ pc' = IF r.quit THEN "done" ELSE "drain"
        /\ \E res \in IF r.eff.spawned = <<>> THEN {Ok(<<>>)}
                      ELSE Results(r.eff.spawned[1], w) :
              rx' = IF r.quit THEN <<>>
                    ELSE IF r.eff.spawned = <<>> THEN rx
                    ELSE rx \o r.eff.sent \o <<task_result(r.eff.spawned[1], res)>>
        /\ term' = IF r.quit THEN TermOff
                   ELSE IF r.term = None THEN term ELSE r.term[1]

\* run: a key press is read and dispatched.  On q run() returns: TuiGuard
\* is dropped and main() disables raw mode and leaves the alternate screen.
PollKey(w) ==
    /\ pc = "poll"
    /\ \E k \in w.keys[app.view] : \E io \in IOs(app, k, file) :
        LET r == run_key(app, k, file, io) IN
        /\ typed' = IF IsTyping(app, k) THEN typed + 1 ELSE typed
        /\ typed' <= MaxTyped
        /\ (app.view = "Config" /\ IsTyping(app, k)) => app.cfg_edit.focus \in w.edits
        /\ r.app.body_scroll <= MaxScroll
        /\ BagCardinality(tasks (+) Spawned(r.eff)) <= w.inflight
        /\ app' = r.app
        /\ file' = r.file
        /\ tasks' = tasks (+) Spawned(r.eff)
        /\ pc' = IF r.quit THEN "done" ELSE "drain"
        /\ rx' = IF r.quit THEN <<>> ELSE rx \o r.eff.sent
        /\ term' = IF r.quit THEN TermOff
                   ELSE IF r.term = None THEN term ELSE r.term[1]

\* TaskDone that reports a failed call and runs it again
TaskDoneRetrying(w) ==
    \E t \in BagToSet(tasks) : \E res \in Results(t, w) :
        /\ tasks' = IF res.ok THEN tasks (-) SetToBag({t}) ELSE tasks
        /\ pc # "done" \/ res.ok
        /\ rx' = IF pc = "done" THEN rx ELSE Append(rx, task_result(t, res))
        /\ UNCHANGED <<app, pc, file, typed, term>>

\* a spawn_blocking closure returns and sends its one message; the send
\* fails, and is ignored, once run() has returned and dropped rx
TaskDone(w) ==
    \E t \in BagToSet(tasks) : \E res \in Results(t, w) :
        /\ tasks' = tasks (-) SetToBag({t})
        /\ rx' = IF pc = "done" THEN rx ELSE Append(rx, task_result(t, res))
        /\ UNCHANGED <<app, pc, file, typed, term>>

\* The process starts: main() has not touched the terminal.  app holds the
\* value run() constructs once Config::load_or_create has returned.
InitMain(w) ==
    \E created \in w.created :
        /\ app = InitApp(created, Loaded(created))
        /\ file = Toml(Loaded(created))
        /\ pc = "main_raw"
        /\ rx = <<>>
        /\ tasks = EmptyBag
        /\ typed = 0
        /\ term = TermOff

\* main: enable_raw_mode()?
MainRaw ==
    /\ pc = "main_raw"
    /\ \E ok \in BOOLEAN :
        /\ pc' = IF ok THEN "main_alt" ELSE "done"
        /\ term' = IF ok THEN [term EXCEPT !.raw = TRUE] ELSE term
    /\ UNCHANGED <<app, rx, tasks, file, typed>>

\* main: execute!(stdout(), EnterAlternateScreen)?
MainAlt ==
    /\ pc = "main_alt"
    /\ \E ok \in BOOLEAN :
        /\ pc' = IF ok THEN "load" ELSE "done"
        /\ term' = IF ok THEN [term EXCEPT !.alt = TRUE] ELSE term
    /\ UNCHANGED <<app, rx, tasks, file, typed>>

\* main, after app::run() has returned: disable_raw_mode, LeaveAlternateScreen
main_teardown(tm) == [tm EXCEPT !.raw = FALSE, !.alt = FALSE]

\* TuiGuard::drop
TuiGuard_drop(tm) == [tm EXCEPT !.raw = FALSE, !.alt = FALSE]

\* run: Config::load_or_create()?, the App, the first refresh
Load ==
    /\ pc = "load"
    /\ \E ok \in BOOLEAN :
        IF ok
        THEN /\ pc' = "run_raw"
             /\ rx' = IF app.view = "Config" THEN <<>>
                      ELSE spawn_refresh_list(app.config).sent
             /\ tasks' = IF app.view = "Config" THEN EmptyBag
                         ELSE Spawned(spawn_refresh_list(app.config))
             /\ term' = term
        ELSE /\ pc' = "done"
             /\ term' = main_teardown(term)
             /\ UNCHANGED <<rx, tasks>>
    /\ UNCHANGED <<app, file, typed>>

\* run: enable_raw_mode()?
RunRaw ==
    /\ pc = "run_raw"
    /\ \E ok \in BOOLEAN :
        /\ pc' = IF ok THEN "run_alt" ELSE "done"
        /\ term' = IF ok THEN [term EXCEPT !.raw = TRUE] ELSE main_teardown(term)
        /\ rx' = IF ok THEN rx ELSE <<>>
    /\ UNCHANGED <<app, tasks, file, typed>>

\* run: execute!(stdout(), EnterAlternateScreen, Hide)?
RunAlt ==
    /\ pc = "run_alt"
    /\ \E ok \in BOOLEAN :
        /\ pc' = IF ok THEN "term_new" ELSE "done"
        /\ term' = IF ok THEN [term EXCEPT !.alt = TRUE] ELSE main_teardown(term)
        /\ rx' = IF ok THEN rx ELSE <<>>
    /\ UNCHANGED <<app, tasks, file, typed>>

\* run: let _guard = TuiGuard; Terminal::new(backend)?; terminal.clear()?
TermNew ==
    /\ pc = "term_new"
    /\ \E ok \in BOOLEAN :
        /\ pc' = IF ok THEN "drain" ELSE "done"
        /\ term' = IF ok THEN term ELSE main_teardown(TuiGuard_drop(term))
        /\ rx' = IF ok THEN rx ELSE <<>>
    /\ UNCHANGED <<app, tasks, file, typed>>

\* run: terminal.draw(..)?, event::poll(..)? or event::read()? returns an
\* error, or the drawing panics: TuiGuard is dropped as run() is left
LoopError ==
    /\ pc \in {"draw", "poll"}
    /\ pc' = "done"
    /\ term' = TuiGuard_drop(term)
    /\ rx' = <<>>
    /\ UNCHANGED <<app, tasks, file, typed>>

Next(w) == Drain \/ DrainEnd \/ Draw \/ PollIdle \/ PollKey(w) \/ TaskDone(w)

\* main() from the start of the process
NextMain(w) ==
    \/ MainRaw \/ MainAlt \/ Load \/ RunRaw \/ RunAlt \/ TermNew \/ LoopError
    \/ Next(w)

Spec == Init(Session) /\ [][Next(Session)]_vars

SpecReply == Init(Replying) /\ [][Next(Replying)]_vars

SpecCompose == Init(Composing) /\ [][Next(Composing)]_vars

SpecAnswer == Init(Answering) /\ [][Next(Answering)]_vars

SpecSchedule == Init(Scheduling) /\ [][Next(Scheduling)]_vars

SpecReconfigure == Init(Reconfiguring) /\ [][Next(Reconfiguring)]_vars

SpecConfig == Init(Configuring) /\ [][Next(Configuring)]_vars

SpecList == Init(Listing) /\ [][Next(Listing)]_vars

SpecTerminal == InitMain(Lifecycle) /\ [][NextMain(Lifecycle)]_vars

---------------------------------------------------------------------------
(* Steps of run(), told apart by what they do to pc, rx and tasks.         *)

\* the drain loop receives the head of the channel
Received == pc = "drain" /\ rx # <<>> /\ rx' = Tail(rx)

\* a key press is dispatched
KeyStep == pc = "poll" /\ (pc' = "done" \/ (pc' = "drain" /\ rx' # rx) \/ app' # app)

\* a closure finishes
Finished == BagCardinality(tasks') < BagCardinality(tasks)

\* Enter opens the selected message
Opened == pc = "poll" /\ app.view = "List" /\ app'.view = "Mail"

---------------------------------------------------------------------------
(* The claims.                                                             *)

\* C1: in every reachable state the selection index is below the length of
\* the message list when the list is non-empty, and is 0 when it is empty.
C1_SelectionInRange ==
    IF app.messages = <<>> THEN app.selected = 0
    ELSE app.selected \in 0..(Len(app.messages) - 1)

\* C1 witness: a message was opened below the first row and is still
\* loading, and a refresh has since delivered a list too short to hold its
\* row: the selection was clamped to the new last row.
C1_Witness ==
    /\ app.view = "Mail"
    /\ app.current_body = LOADING
    /\ app.messages # <<>>
    /\ app.current_header[1].uid > Len(app.messages)
    /\ app.selected = Len(app.messages) - 1

\* C2: a step that applies a received message (a list, a body or a status)
\* leaves the compose draft, the config draft and the view as they were.
C2_ResultsKeepDrafts ==
    [][Received => /\ app'.compose = app.compose
                   /\ app'.cfg_edit = app.cfg_edit
                   /\ app'.view = app.view]_vars

\* C2 witness: a list result has been applied in the compose view over a
\* reply draft.
C2_Witness ==
    /\ app.view = "Compose"
    /\ app.compose.quote # <<>>
    /\ app.messages # <<>>
    /\ app.status = "Loaded " \o ToString(Len(app.messages)) \o " messages"

\* C3: the frame is drawn only by the step that found the channel empty,
\* an event is polled only after a frame was drawn, a dispatched key is
\* followed by the drain (or ends the loop), and the App changes only by a
\* received message in the drain or by a key at the poll.
C3_LoopOrder ==
    [][/\ (pc' = "draw" /\ pc # "draw") => (pc = "drain" /\ rx = <<>> /\ app' = app)
       /\ (pc' = "poll" /\ pc # "poll") => (pc = "draw" /\ app' = app)
       /\ (pc = "poll" /\ pc' # "poll") => pc' \in {"drain", "done"}
       /\ (pc = "drain" /\ pc' # "drain") => pc' = "draw"
       /\ app' # app => (Received /\ pc' = "drain") \/ KeyStep]_vars

\* C3 witness: a frame is about to be drawn that shows a body result
\* applied by the drain before it, with nothing left in the channel.
C3_Witness ==
    /\ pc = "draw"
    /\ rx = <<>>
    /\ app.view = "Mail"
    /\ app.status = "Mail loaded"

\* C4 as claimed: whenever a closure finishes, exactly one message joins the
\* channel.
C4_Original ==
    [][Finished => Len(rx') = Len(rx) + 1]_vars

\* C4 as amended: closures leave the bag of unfinished work only one at a
\* time and only by finishing; while run() has not returned the finishing
\* closure appends exactly one message, its result or its error, to the
\* channel, and after run() returned its message is dropped; no step other
\* than a key press adds a closure, and a message joins the channel only
\* from a finishing closure or from the key handler.
C4_OneMessagePerTask ==
    [][/\ Finished =>
            /\ BagCardinality(tasks') = BagCardinality(tasks) - 1
            /\ pc' = pc /\ app' = app
            /\ pc # "done" =>
                  /\ Len(rx') = Len(rx) + 1
                  /\ SubSeq(rx', 1, Len(rx)) = rx
                  /\ \E t \in BagToSet(tasks) :
                        /\ tasks' = tasks (-) SetToBag({t})
                        /\ rx'[Len(rx')].type \in
                              CASE t.kind = "list" -> {"MailList", "Status"}
                                [] t.kind = "body" -> {"MailBody", "Status"}
                                [] t.kind = "send" -> {"Status"}
            /\ pc = "done" => rx' = rx
       /\ BagCardinality(tasks') > BagCardinality(tasks) =>
            /\ pc = "poll" /\ pc' = "drain"
            /\ BagCardinality(tasks') = BagCardinality(tasks) + 1
       /\ ~Finished /\ pc # "poll" => tasks' = tasks
       /\ Len(rx') > Len(rx) => Finished \/ (pc = "poll" /\ pc' = "drain")]_vars

\* C4 witness: the loop is running and two closures, a refresh and a body
\* fetch, have each delivered their one message.
C4_Witness ==
    /\ pc = "poll"
    /\ tasks = EmptyBag
    /\ Len(rx) = 2
    /\ {rx[1].type, rx[2].type} = {"MailList", "MailBody"}

\* C5: the step that receives a MailBody makes its header and its body the
\* open message, whatever the view and whatever message was open.
C5_BodyAppliedUnfenced ==
    [][(Received /\ Head(rx).type = "MailBody") =>
            /\ app'.current_header = Some(Head(rx).header)
            /\ app'.current_body = Head(rx).body
            /\ app'.view = app.view]_vars

\* C5 witness: a body result has been applied in the list view while the
\* fetch of another message is still unfinished.
C5_Witness ==
    /\ app.view = "List"
    /\ app.status = "Mail loaded"
    /\ app.current_header # None
    /\ \E t \in BagToSet(tasks) :
          t.kind = "body" /\ t.header.uid # app.current_header[1].uid

\* C6 as claimed: the step that opens a message leaves the selected summary
\* as header, the placeholder as body, a body fetch of that uid scheduled,
\* and the scroll offset 0.
C6_OpenResetsAll ==
    [][Opened =>
            /\ app'.current_header = Some(app.messages[app.selected + 1])
            /\ app'.current_body = LOADING
            /\ tasks' = tasks (+) SetToBag({[kind |-> "body", config |-> app.config,
                                             header |-> app.messages[app.selected + 1]]})
            /\ app'.body_scroll = 0]_vars

\* C7: in the message view with an empty or placeholder body, r changes the
\* status line only and schedules nothing; and from the step that opens a
\* message the body is the placeholder until a MailBody is received.
C7_ReplyRejected ==
    [][/\ (app.view = "Mail"
           /\ (trim(app.current_body) = <<>> \/ trim(app.current_body) = LOADING)) =>
            LET r == run_key(app, Key("r", FALSE), file, CHOOSE io \in IOs(app, Key("r", FALSE), file) : TRUE)
            IN /\ r.app = [app EXCEPT !.status = "Mail is still loading"]
               /\ r.eff = NoEffect
               /\ ~r.quit
       /\ Opened => app'.current_body = LOADING
       /\ (app.current_body = LOADING /\ app'.current_body # LOADING) =>
            (Received /\ Head(rx).type = "MailBody")]_vars

\* C7 witness: r was pressed on a message that is still loading and was
\* refused.
C7_Witness ==
    /\ app.view = "Mail"
    /\ app.current_body = LOADING
    /\ app.status = "Mail is still loading"

\* C8 as claimed: the subject of a reply draft starts with "Re: " and what
\* follows that prefix does not itself start with a case variant of "re:".
C8_Original ==
    (app.view = "Compose" /\ app.status = "Reply") =>
        LET r == app.compose.subject IN
        /\ starts_with(r, <<"R", "e", ":", " ">>)
        /\ ~starts_with(to_ascii_lowercase(trim(SubSeq(r, 5, Len(r)))), <<"r", "e", ":">>)

\* C8 as amended: the subject of a reply draft starts with a case variant of
\* "re:"; an original that, trimmed, already starts with a case variant of
\* "re:" is kept as it is, trimmed, with no prefix added; any other non-empty
\* original gets "Re: " prepended once; the empty original becomes "Re:".
C8_ReplySubject ==
    (app.view = "Compose" /\ app.status = "Reply") =>
        LET s == trim(app.current_header[1].subject)
            r == app.compose.subject
            prefixed == starts_with(to_ascii_lowercase(s), <<"r", "e", ":">>)
        IN /\ starts_with(to_ascii_lowercase(r), <<"r", "e", ":">>)
           /\ prefixed => r = s
           /\ (~prefixed /\ s # <<>>) => r = <<"R", "e", ":", " ">> \o s
           /\ s = <<>> => r = <<"R", "e", ":">>

\* C8 witness: the reply to a message whose subject is "RE:x" carries the
\* subject "RE:x".
C8_Witness ==
    /\ app.view = "Compose"
    /\ app.status = "Reply"
    /\ app.current_header[1].subject = <<"R", "E", ":", "x">>
    /\ app.compose.subject = <<"R", "E", ":", "x">>

\* C9: in the compose view with a blank recipient or a blank subject,
\* Control+S changes the status line only, to the message naming the blank
\* field, and schedules and sends nothing.
C9_BlankDraftRejected ==
    (app.view = "Compose"
     /\ (trim(app.compose.to) = <<>> \/ trim(app.compose.subject) = <<>>)) =>
        \A io \in IOs(app, Key("s", TRUE), file) :
            LET r == run_key(app, Key("s", TRUE), file, io) IN
            /\ r.app = [app EXCEPT !.status = IF trim(app.compose.to) = <<>>
                                              THEN "To is empty"
                                              ELSE "Subject is empty"]
            /\ r.eff = NoEffect
            /\ r.file = file
            /\ ~r.quit

\* C9 witness: Control+S was refused on a draft whose recipient is typed
\* and whose subject is a blank.
C9_Witness ==
    /\ app.view = "Compose"
    /\ app.status = "Subject is empty"
    /\ trim(app.compose.to) # <<>>
    /\ app.compose.subject = <<" ">>
    /\ tasks = EmptyBag
    /\ rx = <<>>

\* C10: in the config view with a port field that does not parse as a
\* 16-bit unsigned integer, Control+S changes the status line only: the
\* live configuration and the file are as before, the view is still the
\* config view, nothing is scheduled or sent.
C10_InvalidPortRejected ==
    (app.view = "Config"
     /\ (~parse_u16(app.cfg_edit.imap_port).ok \/ ~parse_u16(app.cfg_edit.smtp_port).ok)) =>
        \A io \in IOs(app, Key("s", TRUE), file) :
            LET r == run_key(app, Key("s", TRUE), file, io)
                e == IF ~parse_u16(app.cfg_edit.imap_port).ok
                     THEN parse_u16(app.cfg_edit.imap_port).err
                     ELSE parse_u16(app.cfg_edit.smtp_port).err
            IN /\ r.app = [app EXCEPT !.status = "Config invalid: " \o e]
               /\ r.eff = NoEffect
               /\ r.file = file
               /\ ~r.quit

\* C10 witness: Control+S was refused on a draft whose IMAP fields were
\* edited and are valid and whose SMTP port is empty.
C10_Witness ==
    /\ app.view = "Config"
    /\ app.status = "Config invalid: cannot parse integer from empty string"
    /\ parse_u16(app.cfg_edit.imap_port).ok
    /\ parse_u16(app.cfg_edit.imap_port).val # app.config.imap.port
    /\ app.cfg_edit.smtp_port = <<>>
    /\ tasks = EmptyBag

\* C11 as claimed: in the config view with two valid ports, Control+S
\* meeting a failure of the write of config.toml sets the "Save error"
\* status, stays in the config view, schedules nothing, and leaves the live
\* configuration as it was before the key.
C11_FailedSaveKeepsConfig ==
    (app.view = "Config"
     /\ parse_u16(app.cfg_edit.imap_port).ok /\ parse_u16(app.cfg_edit.smtp_port).ok) =>
        \A io \in {i \in IOs(app, Key("s", TRUE), file) : i.save # "ok"} :
            LET r == run_key(app, Key("s", TRUE), file, io) IN
            /\ r.app.view = "Config"
            /\ r.eff = NoEffect
            /\ ~r.quit
            /\ r.app.config = app.config

\* C12: in the config view with two valid ports, Control+S meeting a
\* successful write makes every field of the live configuration the value
\* of the draft's field (the ports as the numbers the texts denote), leaves
\* that configuration in the file, switches to return_view, and spawns
\* exactly one closure, a list refresh holding the new configuration.
C12_SaveAppliesDraft ==
    (app.view = "Config"
     /\ parse_u16(app.cfg_edit.imap_port).ok /\ parse_u16(app.cfg_edit.smtp_port).ok) =>
        \A io \in {i \in IOs(app, Key("s", TRUE), file) : i.save = "ok"} :
            LET r == run_key(app, Key("s", TRUE), file, io)
                e == app.cfg_edit
                c == r.app.config
            IN /\ c.imap.host = e.imap_host
               /\ c.imap.port = parse_u16(e.imap_port).val
               /\ c.imap.username = e.imap_user
               /\ c.imap.password = e.imap_pass
               /\ c.imap.starttls = e.imap_starttls
               /\ c.smtp.host = e.smtp_host
               /\ c.smtp.port = parse_u16(e.smtp_port).val
               /\ c.smtp.username = e.smtp_user
               /\ c.smtp.password = e.smtp_pass
               /\ c.smtp.starttls = e.smtp_starttls
               /\ c.user.name = e.user_name
               /\ c.user.email = e.user_email
               /\ r.file = Toml(c)
               /\ r.app.view = app.return_view
               /\ r.app.cfg_edit = e
               /\ r.eff.spawned = <<[kind |-> "list", config |-> c]>>
               /\ ~r.quit

\* C12 witness: an edited draft has just been saved: the live configuration
\* and the file hold the edited IMAP host, the view is the list again and
\* the refresh in flight holds the new configuration.
C12_Witness ==
    /\ app.view = "List"
    /\ app.status = "Saved config.toml"
    /\ app.config.imap.host # FileConfig.imap.host
    /\ app.config.imap.host = app.cfg_edit.imap_host
    /\ file = Toml(app.config)
    /\ tasks = SetToBag({[kind |-> "list", config |-> app.config]})

\* C13 as claimed: a draft that saves successfully is reproduced field by
\* field, the two port texts included, when the saved file is reloaded into
\* a draft.
C13_Original ==
    (app.view = "Config"
     /\ parse_u16(app.cfg_edit.imap_port).ok /\ parse_u16(app.cfg_edit.smtp_port).ok) =>
        \A io \in {i \in IOs(app, Key("s", TRUE), file) : i.save = "ok"} :
            LET r == run_key(app, Key("s", TRUE), file, io)
                d == reload_config_from_file(r.app, r.file).app.cfg_edit
            IN [d EXCEPT !.focus = app.cfg_edit.focus] = app.cfg_edit

\* C13 as amended: a draft that saves successfully is reproduced by the
\* reload of the saved file in every field but the ports exactly, and in
\* each port as the decimal text of the number the port text denotes, which
\* is the text entered unless that had leading zeros.
C13_RoundTrip ==
    (app.view = "Config"
     /\ parse_u16(app.cfg_edit.imap_port).ok /\ parse_u16(app.cfg_edit.smtp_port).ok) =>
        \A io \in {i \in IOs(app, Key("s", TRUE), file) : i.save = "ok"} :
            LET r == run_key(app, Key("s", TRUE), file, io)
                rl == reload_config_from_file(r.app, r.file)
                d == rl.app.cfg_edit
                e == app.cfg_edit
                canon(p) == IF Len(p) > 1 /\ p[1] = "0"
                            THEN to_string(parse_u16(p).val) ELSE p
            IN /\ rl.ok
               /\ [d EXCEPT !.focus = e.focus] =
                      [e EXCEPT !.imap_port = to_string(parse_u16(e.imap_port).val),
                                !.smtp_port = to_string(parse_u16(e.smtp_port).val)]
               /\ d.imap_port = canon(e.imap_port)
               /\ d.smtp_port = canon(e.smtp_port)

\* C13 witness: a draft whose SMTP port was typed with a leading zero has
\* been saved, and the live configuration holds the number.
C13_Witness ==
    /\ app.status = "Saved config.toml"
    /\ app.cfg_edit.smtp_port = <<"0", "6">>
    /\ app.config.smtp.port = 6
    /\ file = Toml(app.config)

\* C14: the step that receives a MailList of N summaries makes that list
\* the message list, whatever list was held; makes the selection 0 when N is
\* 0 and otherwise the smaller of the old selection and N - 1, so that a
\* selection of 0 stays 0; and sets the status "Loaded N messages".
C14_ListReplaced ==
    [][(Received /\ Head(rx).type = "MailList") =>
            LET l == Head(rx).list
                N == Len(l)
            IN /\ app'.messages = l
               /\ app'.selected = IF N = 0 \/ app.selected = 0 THEN 0
                                  ELSE IF app.selected < N THEN app.selected ELSE N - 1
               /\ app'.status = "Loaded " \o ToString(N) \o " messages"
               /\ (app.messages = <<>> /\ N = 3) =>
                      (app'.selected = 0 /\ app'.status = "Loaded 3 messages")]_vars

\* C14 witness: a list of three summaries has been received, the first row
\* is selected and the status reports three messages.
C14_Witness ==
    /\ Len(app.messages) = 3
    /\ app.selected = 0
    /\ app.status = "Loaded 3 messages"

\* C15: the step that receives the error Status of a failed list refresh,
\* body fetch or send changes the status line and nothing else of the App,
\* spawns nothing, and leaves run() in its loop.
C15_FailureOnlyStatus ==
    [][(/\ Received
        /\ Head(rx).type = "Status"
        /\ Head(rx).s \in {p \o "connection refused" :
                              p \in {"IMAP list error: ", "IMAP body error: ",
                                     "SMTP error: "}}) =>
            /\ app' = [app EXCEPT !.status = Head(rx).s]
            /\ tasks' = tasks
            /\ file' = file
            /\ pc' = "drain"]_vars

\* C15 witness: a send has failed while its reply draft is still open: the
\* status names the failure, the draft and the open message are held.
C15_Witness ==
    /\ app.status = "SMTP error: connection refused"
    /\ app.view = "Compose"
    /\ app.compose.quote # <<>>
    /\ app.current_header # None

\* C16 as claimed: whenever main() has returned, by q, by an error or a
\* panic in the loop, by a failure of Config::load_or_create or of a
\* terminal set-up step, raw mode is disabled and the alternate screen left.
C16_ExitRestoresTerminal ==
    pc = "done" => (~term.raw /\ ~term.alt)

\* C17 as claimed: whenever run() is in its loop, after any number of
\* editor invocations with any outcome, the terminal is in raw mode and on
\* the alternate screen.
C17_LoopKeepsTerminal ==
    pc \in {"drain", "draw", "poll"} => (term.raw /\ term.alt)

C19_GlobalKeys ==
    app.view # "Config" =>
        /\ \A io \in IOs(app, Key("q", FALSE), file) :
              LET r == run_key(app, Key("q", FALSE), file, io) IN
              r.quit /\ r.app = app /\ r.eff = NoEffect /\ r.file = file
        /\ \A io \in IOs(app, Key("g", FALSE), file) :
              LET r == run_key(app, Key("g", FALSE), file, io) IN
              /\ ~r.quit
              /\ r.eff = NoEffect
              /\ r.file = file
              /\ r.app.view = "Config"
              /\ r.app.return_view = app.view
              /\ r.app.cfg_edit.focus = "ImapHost"
              /\ r.app.cfg_edit.imap_host = app.config.imap.host
              /\ r.app.cfg_edit.smtp_port = to_string(app.config.smtp.port)
              /\ r.app = [app EXCEPT !.return_view = app.view,
                                     !.cfg_edit = from_config(app.config),
                                     !.view = "Config",
                                     !.status = "Config"]

\* C19 witness: g was pressed in the list view over a loaded list: the
\* config view is shown, return_view is the list view and nothing is in
\* flight.
C19_Witness ==
    /\ app.view = "Config"
    /\ app.status = "Config"
    /\ app.return_view = "List"
    /\ app.messages # <<>>
    /\ app.cfg_edit = from_config(app.config)
    /\ tasks = EmptyBag
    /\ pc = "drain"

\* C20 as claimed: in every state whose view is not the message view there
\* is no header and no body of an open message.
C20_Original ==
    app.view # "Mail" => (app.current_header = None /\ app.current_body = <<>>)

\* C20 as amended: whenever the view is the message view an open message is
\* held, and while no message was ever opened there is no header, no body
\* and no scroll offset; the open message is not dropped when the message
\* view is left.
C20_OpenMessageHeld ==
    /\ app.view = "Mail" => app.current_header # None
    /\ app.current_header = None => (app.current_body = <<>> /\ app.body_scroll = 0)

\* C20 witness: Esc has led from the message view back to the list, and the
\* header and the loaded body of the message are still held.
C20_Witness ==
    /\ app.view = "List"
    /\ app.status = "Back"
    /\ app.current_header # None
    /\ app.current_body = BodyText(app.current_header[1].uid)

\* The progress statuses of spawn_refresh_list, spawn_fetch_body and
\* spawn_send_mail.
IsProgress(m) ==
    /\ m.type = "Status"
    /\ \/ m.s = "Fetching mail list..."
       \/ m.s = "Sending..."
       \/ \E uid \in 1..(MaxUid + 1) : m.s = "Fetching body (uid=" \o ToString(uid) \o ")..."

\* The progress status the scheduler of a closure sends.
progress_of(t) ==
    CASE t.kind = "list" -> Status("Fetching mail list...")
      [] t.kind = "body" ->
            Status("Fetching body (uid=" \o ToString(t.header.uid) \o ")...")
      [] t.kind = "send" -> Status("Sending...")

\* C21: a gateway operation runs only in a step of a spawned closure, which
\* leaves the loop's position, the App, the file and the terminal alone; a
\* step of the loop completes no operation and puts no result on the
\* channel: when it schedules, it adds the closure to those in flight, sends
\* the progress status and is back at the top of the loop.
C21_LoopNeverWaits ==
    [][/\ Finished =>
             /\ app' = app /\ pc' = pc /\ file' = file /\ term' = term
             /\ \E t \in BagToSet(tasks) :
                   /\ tasks' = tasks (-) SetToBag({t})
                   /\ pc # "done" => \E res \in Results(t, Session) :
                                        rx' = Append(rx, task_result(t, res))
       /\ ~Finished =>
             /\ \A t \in BagToSet(tasks) : CopiesIn(t, tasks') >= CopiesIn(t, tasks)
             /\ Len(rx') <= Len(rx) + 1
             /\ Len(rx') > Len(rx) =>
                   /\ pc = "poll" /\ pc' = "drain"
                   /\ rx' = Append(rx, rx'[Len(rx')])
                   /\ IsProgress(rx'[Len(rx')])
                   /\ BagCardinality(tasks') = BagCardinality(tasks) + 1
             /\ tasks' # tasks => Len(rx') > Len(rx)]_vars

\* C21 witness: with MaxTasks operations in flight (the first refresh and
\* the fetch of the opened message's body) a Down key was dispatched in the
\* message view.
C21_Witness ==
    /\ pc = "drain"
    /\ BagCardinality(tasks) = MaxTasks
    /\ app.view = "Mail"
    /\ app.body_scroll = 1
    /\ app.current_body = LOADING

\* C22: in the compose view with a To and a Subject that are not blank,
\* Control+S sends "Sending..." and spawns one send closure, with the To and
\* the Subject of the draft and, as its text, the body without its trailing
\* whitespace, then an empty line, then the quote without its trailing
\* whitespace, a half that is empty after trimming being left out together
\* with the empty line; the App, with its view and its draft, is as before.
C22_SendContent ==
    (app.view = "Compose" /\ trim(app.compose.to) # <<>>
                          /\ trim(app.compose.subject) # <<>>) =>
        \A io \in IOs(app, Key("s", TRUE), file) :
            LET r == run_key(app, Key("s", TRUE), file, io)
                b == trim_end(app.compose.body)
                q == trim_end(app.compose.quote)
                content == IF b = <<>> /\ q = <<>> THEN <<>>
                           ELSE IF q = <<>> THEN b
                           ELSE IF b = <<>> THEN q
                           ELSE b \o <<"\n", "\n">> \o q
            IN /\ r.app = app
               /\ ~r.quit
               /\ r.eff.sent = <<Status("Sending...")>>
               /\ r.eff.spawned = <<[kind |-> "send", config |-> app.config,
                                     to |-> app.compose.to,
                                     subject |-> app.compose.subject,
                                     body |-> content]>>

\* C22 witness: a reply whose body was typed with a trailing blank and whose
\* quote ends in a blank line has been sent: the closure in flight carries
\* the two halves trimmed and joined by an empty line, and the draft still
\* holds the untrimmed texts.
C22_Witness ==
    /\ app.view = "Compose"
    /\ app.compose.body = <<"x", " ">>
    /\ app.compose.quote # trim_end(app.compose.quote)
    /\ \E t \in BagToSet(tasks) :
          /\ t.kind = "send"
          /\ t.body = <<"x", "\n", "\n">> \o trim_end(app.compose.quote)

\* The letters and the digits, as key codes.
Letters == {LOWER[i] : i \in 1..26} \cup {UPPER[i] : i \in 1..26}

Digits == {DIGITS[i] : i \in 1..10}

\* C23: in the compose view every letter key, which is none of Control+S,
\* Esc, Tab, Backspace and Enter, is appended to the focused field and
\* changes nothing else: run() does not return, nothing is scheduled, the
\* view and the rest of the App are as before.
C23_EveryLetterTyped ==
    app.view = "Compose" =>
        \A ch \in Letters :
            \A io \in IOs(app, Key(ch, FALSE), file) :
                LET r == run_key(app, Key(ch, FALSE), file, io) IN
                /\ ~r.quit
                /\ r.eff = NoEffect
                /\ r.file = file
                /\ r.app = [app EXCEPT !.compose = compose_char(app.compose, ch)]

\* C24: in the config view a letter or digit key other than e changes
\* nothing when a starttls field is focused, changes nothing when a port
\* field is focused and the key is not a digit, and otherwise is appended
\* to the focused field; run() does not return, nothing is scheduled and
\* the view is still the config view.
C24_EveryCharTyped ==
    app.view = "Config" =>
        \A ch \in (Letters \cup Digits) \ {"e"} :
            \A io \in IOs(app, Key(ch, FALSE), file) :
                LET r == run_key(app, Key(ch, FALSE), file, io)
                    f == app.cfg_edit.focus
                IN /\ ~r.quit
                   /\ r.eff = NoEffect
                   /\ r.file = file
                   /\ r.app.view = "Config"
                   /\ r.app = IF field_is_toggle(f) THEN app
                              ELSE IF field_is_port(f) /\ ch \notin Digits THEN app
                              ELSE [app EXCEPT !.cfg_edit = config_char(app.cfg_edit, ch)]
                   /\ (~field_is_toggle(f) /\ (field_is_port(f) => ch \in Digits))
                         => r.app.cfg_edit # app.cfg_edit

\* C25: in the config view Tab moves the focus to the next of the twelve
\* fields in the order IMAP host, port, user, pass, starttls, SMTP host,
\* port, user, pass, starttls, name, email, and from email to IMAP host;
\* Shift+Tab moves it to the previous one, and from IMAP host to email;
\* neither changes anything else; each undoes the other, and twelve Tabs,
\* or twelve Shift+Tabs, bring the focus back.
C25_FocusRing ==
    app.view = "Config" =>
        LET io == [save |-> "ok", editor |-> "zero", edited |-> file]
            tab(a) == run_key(a, Key("Tab", FALSE), file, io)
            back(a) == run_key(a, Key("BackTab", FALSE), file, io)
            RECURSIVE tabs(_, _)
            tabs(a, n) == IF n = 0 THEN a ELSE tabs(tab(a).app, n - 1)
            RECURSIVE backs(_, _)
            backs(a, n) == IF n = 0 THEN a ELSE backs(back(a).app, n - 1)
            i == IndexOf(app.cfg_edit.focus)
        IN /\ Len(ConfigFields) = 12
           /\ tab(app).app = [app EXCEPT !.cfg_edit.focus = ConfigFields[(i % 12) + 1]]
           /\ back(app).app =
                 [app EXCEPT !.cfg_edit.focus = ConfigFields[((i + 10) % 12) + 1]]
           /\ tab(app).eff = NoEffect /\ ~tab(app).quit /\ tab(app).file = file
           /\ back(app).eff = NoEffect /\ ~back(app).quit /\ back(app).file = file
           /\ back(tab(app).app).app = app
           /\ tab(back(app).app).app = app
           /\ \A n \in 1..11 : tabs(app, n) # app /\ backs(app, n) # app
           /\ tabs(app, 12) = app
           /\ backs(app, 12) = app

\* C25 witness: a digit was typed into the SMTP port, the seventh field, and
\* Tab has then taken the focus over the email field round to the IMAP host.
C25_Witness ==
    /\ app.view = "Config"
    /\ app.cfg_edit.focus = "ImapHost"
    /\ app.cfg_edit.smtp_port = <<"0", "6">>

\* C26: in the config view a character key, Backspace, Space, Tab, Shift+Tab
\* and Esc leave the live configuration as it is; Esc shows return_view; and
\* when g is pressed after Esc, the draft of the new session is the draft of
\* the configuration that was last saved, the one config.toml holds: what
\* was edited and then discarded with Esc is not in it.
C26_DiscardedEditsGone ==
    app.view = "Config" =>
        LET io == [save |-> "ok", editor |-> "zero", edited |-> file]
            EditKeys == {Key(c, FALSE) : c \in ((Letters \cup Digits) \ {"e", "q"})
                                                \cup {"Backspace", " ", "Tab", "BackTab", "Esc"}}
            esc == run_key(app, Key("Esc", FALSE), file, io)
            again == run_key(esc.app, Key("g", FALSE), esc.file, io)
        IN /\ \A k \in EditKeys :
                 /\ run_key(app, k, file, io).app.config = app.config
                 /\ run_key(app, k, file, io).file = file
                 /\ run_key(app, k, file, io).eff = NoEffect
           /\ esc.app.view = app.return_view
           /\ esc.app.cfg_edit = app.cfg_edit
           /\ again.app.view = "Config"
           /\ again.app.cfg_edit = from_config(esc.app.config)
           /\ file.parsable => again.app.cfg_edit = from_config(file.cfg)

\* C27: return_view is never the config view, and no key makes it so (g
\* pressed in the config view included); hence in the config view Esc, and
\* Control+S when config.toml was written, show another view than the
\* config view, also when the program has started in the config view
\* because config.toml did not exist.
C27_ReturnViewNotConfig ==
    /\ app.return_view # "Config"
    /\ \A k \in {Key("g", FALSE), Key("Esc", FALSE), Key("s", TRUE), Key("e", FALSE)} :
          \A io \in IOs(app, k, file) :
              LET r == run_key(app, k, file, io) IN
              /\ r.app.return_view # "Config"
              /\ (app.view = "Config" /\ k.code = "Esc") => r.app.view # "Config"
              /\ (app.view = "Config" /\ IsCtrlS(k) /\ r.app.status = "Saved config.toml")
                    => r.app.view # "Config"

\* C27 witness: config.toml did not exist, the program has started in the
\* config view, and Esc has shown the list.
C27_Witness ==
    /\ file = Toml(DEFAULT_CONFIG)
    /\ app.view = "List"
    /\ app.return_view = "List"
    /\ app.status = "Back"
    /\ app.messages = <<>>
    /\ tasks = EmptyBag

\* C28: whenever a header is held, it is a summary of the mailbox and the
\* body held with it is "Loading..." or a text fetched for the uid of that
\* header; and a reply that is accepted in the message view takes its To,
\* its Subject and its quote from that header and the text of its uid.
C28_HeaderAndBodyTogether ==
    app.current_header # None =>
        LET h == app.current_header[1]
            r == run_key(app, Key("r", FALSE), file,
                         [save |-> "ok", editor |-> "zero", edited |-> file])
        IN /\ h = Message(h.uid)
           /\ app.current_body = LOADING \/ app.current_body \in Bodies(h.uid)
           /\ (app.view = "Mail" /\ r.app.view = "Compose") =>
                 /\ app.current_body = BodyText(h.uid)
                 /\ r.app.compose.to = extract_reply_to(Message(h.uid).from)
                 /\ r.app.compose.subject = make_reply_subject(Message(h.uid).subject)
                 /\ r.app.compose.quote = make_reply_quote(Message(h.uid), BodyText(h.uid))

\* C28 witness: message 1 was opened, then message 2; the text of message 1
\* has arrived while the fetch for message 2 is still in flight, and the
\* message view holds the header and the text of message 1.
C28_Witness ==
    /\ app.view = "Mail"
    /\ app.current_header = Some(Message(1))
    /\ app.current_body = BodyText(1)
    /\ app.selected = 1
    /\ \E t \in BagToSet(tasks) : t.kind = "body" /\ t.header.uid = 2

\* C29: the step that schedules an operation puts its progress status at
\* the end of the channel in that same step; the operation's result is put
\* at the end of the channel by a later step, that of its closure; the drain
\* loop applies the messages in the order of the channel; and whenever a
\* frame is about to be drawn, the status is not one that a key handler
\* wrote while scheduling ("Refreshing...", "Saved config.toml").
C29_ProgressFirst ==
    [][/\ (~Finished /\ tasks' # tasks) =>
             \E t \in BagToSet(tasks') :
                /\ tasks' = tasks (+) SetToBag({t})
                /\ rx' = Append(rx, progress_of(t))
       /\ (Finished /\ pc # "done") =>
             \E t \in BagToSet(tasks) :
                /\ tasks' = tasks (-) SetToBag({t})
                /\ Len(rx') = Len(rx) + 1
                /\ SubSeq(rx', 1, Len(rx)) = rx
                /\ rx'[Len(rx')] # progress_of(t)
                /\ rx'[Len(rx')] \in {task_result(t, res) : res \in Results(t, Scheduling)}
       /\ Received => app' = apply_msg(app, Head(rx))
       /\ (Received /\ IsProgress(Head(rx))) => app'.status = Head(rx).s
       /\ (pc = "drain" /\ pc' = "draw") =>
             /\ rx = <<>>
             /\ app'.status \notin {"Refreshing...", "Saved config.toml"}]_vars

\* C29 witness: o was pressed in the message view, whose handler wrote
\* "Refreshing..."; the frame that follows shows the progress status of the
\* refresh, which is still in flight.
C29_Witness ==
    /\ pc = "poll"
    /\ app.view = "Mail"
    /\ app.current_body = BodyText(1)
    /\ app.status = "Fetching mail list..."
    /\ \E t \in BagToSet(tasks) : t.kind = "list"

\* C30: a closure holds the configuration that was live when it was
\* scheduled; a step of the loop, a config save or an editor reload
\* included, leaves every closure in flight as it is, with the
\* configuration it holds; when a
\* closure finishes its result is sent whatever the live configuration has
\* become, and a list that is received replaces the list held.
C30_CapturedConfig ==
    [][/\ ~Finished =>
             \A t \in BagToSet(tasks) : CopiesIn(t, tasks') >= CopiesIn(t, tasks)
       /\ (~Finished /\ tasks' # tasks) =>
             \E t \in BagToSet(tasks') :
                /\ tasks' = tasks (+) SetToBag({t})
                /\ t.config = app'.config
       /\ (Finished /\ pc # "done") =>
             \E t \in BagToSet(tasks) :
                /\ tasks' = tasks (-) SetToBag({t})
                /\ \E res \in Results(t, Reconfiguring) :
                      rx' = Append(rx, task_result(t, res))
       /\ (Received /\ Head(rx).type = "MailList") =>
             app'.messages = Head(rx).list]_vars

\* C30 witness: the IMAP host was changed and saved while the first refresh
\* was in flight; the refresh the save scheduled has completed and its
\* empty list is shown, and the first refresh, which holds the configuration
\* of before the save, is still in flight.
C30_Witness ==
    /\ app.view = "List"
    /\ app.config.imap.host = <<"i", "6">>
    /\ file = Toml(app.config)
    /\ app.status = "Loaded 0 messages"
    /\ app.messages = <<>>
    /\ rx = <<>>
    /\ tasks = SetToBag({[kind |-> "list", config |-> FileConfig]})

=============================================================================
